---- MODULE Spec2Model ----
(***************************************************************************)
(* NexGen logistics dashboard (nexgen-logistics-app.py): load_data's       *)
(* integration and derived metrics, main's filter engine,                  *)
(* create_kpi_metrics, the column names the charts of tabs 2 to 4 rely on   *)
(* and the insight rules of the "Insights" tab.                            *)
(*                                                                         *)
(* A data frame is [columns |-> set of column names, rows |-> sequence of  *)
(* rows]; a row maps each column name to a cell.  A cell is << >> (pandas  *)
(* NaN / missing) or <<v>> (the value v); Order_ID and Order_Date are      *)
(* plain integers.  A float result is an exact fraction [num, den].        *)
(***************************************************************************)
EXTENDS Integers, Sequences, FiniteSets, TLC

VARIABLES files,        \* the five per-order CSV files read by load_data
          cache,        \* st.cache_data entry of load_data: << >> or <<result>>
          date_range,   \* value of the "Select Date Range" widget
          carriers,     \* value of the "Select Carriers" multiselect
          priorities,   \* value of the "Select Priority Levels" multiselect
          segments,     \* value of the "Select Customer Segments" multiselect
          main_df,      \* main's local main_df at the end of the run
          kpis,         \* main's local kpis (tab 1)
          insights,     \* main's local insights (tab 7)
          outcome       \* how the last run of main ended

vars == <<files, cache, date_range, carriers, priorities, segments,
          main_df, kpis, insights, outcome>>

(***************************************************************************)
(* Cells and fractions                                                     *)
(***************************************************************************)
NaN == << >>

Val(v) == <<v>>

notna(c) == c # NaN

Frac(n, d) == [num |-> n, den |-> d]

\* a < b, a = b for fractions with positive denominators
FracLt(a, b) == a.num * b.den < b.num * a.den

FracEq(a, b) == a.num * b.den = b.num * a.den

RECURSIVE SumSeq(_)
SumSeq(s) == IF s = << >> THEN 0 ELSE Head(s) + SumSeq(Tail(s))

\* the cells of column col, in row order
Column(df, col) == [i \in 1..Len(df.rows) |-> df.rows[i][col]]

\* the values of the non-missing cells of column col, in row order
dropna(df, col) ==
    LET kept == SelectSeq(Column(df, col), notna)
    IN  [i \in 1..Len(kept) |-> kept[i][1]]

\* Series.unique(): the distinct cells of a column (NaN included)
unique(df, col) == {df.rows[i][col] : i \in 1..Len(df.rows)}

\* NaN-propagating addition of two numeric cells
AddMutNanAsZero(a, b) ==
    Val((IF notna(a) THEN a[1] ELSE 0) + (IF notna(b) THEN b[1] ELSE 0))

Add(a, b) == IF notna(a) /\ notna(b) THEN Val(a[1] + b[1]) ELSE NaN

Sub(a, b) == IF notna(a) /\ notna(b) THEN Val(a[1] - b[1]) ELSE NaN

(***************************************************************************)
(* load_data: the four left merges and the derived metrics                 *)
(***************************************************************************)
cost_columns == <<"Fuel_Cost", "Labor_Cost", "Vehicle_Maintenance", "Insurance",
                  "Packaging_Cost", "Technology_Platform_Fee", "Other_Overhead">>

EmptyFrame == [columns |-> {}, rows |-> << >>]

\* the rows pandas emits for one left row: one per matching right row, or the
\* left row with the right columns missing when nothing matches (how='left')
LeftJoinRowMutInner(l, right, cols) ==
    LET m == SelectSeq(right, LAMBDA r : r["Order_ID"] = l["Order_ID"])
    IN  [i \in 1..Len(m) |-> l @@ [c \in cols |-> m[i][c]]]

LeftJoinRow(l, right, cols) ==
    LET m == SelectSeq(right, LAMBDA r : r["Order_ID"] = l["Order_ID"])
    IN  IF m = << >>
        THEN << l @@ [c \in cols |-> NaN] >>
        ELSE [i \in 1..Len(m) |-> l @@ [c \in cols |-> m[i][c]]]

RECURSIVE MergeRows(_, _, _)
MergeRows(left, right, cols) ==
    IF left = << >> THEN << >>
    ELSE LeftJoinRow(Head(left), right, cols) \o MergeRows(Tail(left), right, cols)

\* left.merge(right, on='Order_ID', how='left')
merge(left, right) ==
    [columns |-> left.columns \cup right.columns,
     rows    |-> MergeRows(left.rows, right.rows, right.columns \ {"Order_ID"})]

\* Fuel_Cost + Labor_Cost + ... + Other_Overhead of one row
TotalCostOf(r) ==
    Add(Add(Add(Add(Add(Add(r["Fuel_Cost"], r["Labor_Cost"]),
                            r["Vehicle_Maintenance"]), r["Insurance"]),
                    r["Packaging_Cost"]), r["Technology_Platform_Fee"]),
        r["Other_Overhead"])

OnTimeOfMutByDelay(r) ==
    notna(r["Actual_Delivery_Days"]) /\ notna(r["Promised_Delivery_Days"])
    /\ r["Actual_Delivery_Days"][1] <= r["Promised_Delivery_Days"][1]

OnTimeOf(r) == r["Delivery_Status"] = Val("On-Time")

DerivedCols == {"Total_Cost", "Delivery_Delay_Days", "On_Time"}

with_derived_metrics(df) ==
    [columns |-> df.columns \cup DerivedCols,
     rows    |-> [i \in 1..Len(df.rows) |->
                    LET r == df.rows[i]
                    IN  [c \in DerivedCols |->
                           CASE c = "Total_Cost" -> TotalCostOf(r)
                             [] c = "Delivery_Delay_Days" ->
                                  Sub(r["Actual_Delivery_Days"],
                                      r["Promised_Delivery_Days"])
                             [] OTHER -> OnTimeOf(r)] @@ r]]

\* the columns load_data indexes in the merged table; a missing one raises
\* inside the try block, as do a missing Order_Date of orders.csv and a
\* missing Feedback_Date of customer_feedback.csv (lines 67-68) and a missing
\* merge key
LoadRequired ==
    {"Order_ID", "Order_Date", "Delivery_Status", "Actual_Delivery_Days",
     "Promised_Delivery_Days"} \cup {cost_columns[i] : i \in 1..Len(cost_columns)}

merged(f) ==
    merge(merge(merge(merge(f.orders, f.delivery), f.cost), f.routes), f.feedback)

\* load_data(): [ok |-> TRUE, df |-> main_df], or [ok |-> FALSE] for the
\* (None, None, None) of the except branch
load_data(f) ==
    LET m == merged(f)
    IN  IF /\ "Order_Date" \in f.orders.columns
           /\ "Feedback_Date" \in f.feedback.columns
           /\ \A k \in {"orders", "delivery", "cost", "routes", "feedback"} :
                  "Order_ID" \in f[k].columns
           /\ LoadRequired \subseteq m.columns
        THEN [ok |-> TRUE, df |-> with_derived_metrics(m)]
        ELSE [ok |-> FALSE, df |-> EmptyFrame]

(***************************************************************************)
(* create_kpi_metrics                                                      *)
(***************************************************************************)
EmptyDict == [k \in {} |-> 0]

CountRows(df, P(_)) == Len(SelectSeq(df.rows, P))

\* Series.mean(): mean of the non-missing values, NaN when there is none
mean(df, col) ==
    LET v == dropna(df, col)
    IN  IF v = << >> THEN NaN ELSE Val(Frac(SumSeq(v), Len(v)))

\* df['On_Time'].sum() / total_orders * 100
kpi_on_time_rateMutKnownStatus(df) ==
    Frac(100 * CountRows(df, LAMBDA r : r["On_Time"]),
         CountRows(df, LAMBDA r : notna(r["Delivery_Status"])))

kpi_on_time_rate(df) ==
    Frac(100 * CountRows(df, LAMBDA r : r["On_Time"]), Len(df.rows))

\* (df['Delivery_Status'] == 'Severely-Delayed').sum() / total_orders * 100
kpi_severely_delayed_rate(df) ==
    Frac(100 * CountRows(df, LAMBDA r :
                         r["Delivery_Status"] = Val("Severely-Delayed")),
         Len(df.rows))

create_kpi_metrics(df) ==
    IF df.rows = << >> THEN EmptyDict
    ELSE [total_orders |-> Len(df.rows),
          on_time_rate |-> kpi_on_time_rate(df),
          avg_rating   |-> IF "Customer_Rating" \in df.columns
                           THEN mean(df, "Customer_Rating") ELSE Val(Frac(0, 1)),
          avg_cost     |-> IF "Total_Cost" \in df.columns
                           THEN mean(df, "Total_Cost") ELSE Val(Frac(0, 1)),
          severely_delayed_rate |-> kpi_severely_delayed_rate(df)]

(***************************************************************************)
(* main: the sidebar filters                                               *)
(***************************************************************************)
Dates(df) == {df.rows[i]["Order_Date"] : i \in 1..Len(df.rows)}

MinDate(df) == CHOOSE d \in Dates(df) : \A e \in Dates(df) : d <= e

MaxDate(df) == CHOOSE d \in Dates(df) : \A e \in Dates(df) : e <= d

\* what st.date_input can return: a (start, end) pair inside [min, max], or a
\* one-element tuple while the second date is not picked yet.  A table without
\* rows has no min and max to offer: no input explored here has an empty
\* orders.csv, and the widget is then taken to return no range.
DateRangeChoices(df) ==
    IF df.rows = << >> THEN {<< >>}
    ELSE LET D == MinDate(df)..MaxDate(df)
         IN  {r \in D \X D : r[1] <= r[2]} \cup {<<a>> : a \in D}

DateRangeDefault(df) ==
    IF df.rows = << >> THEN << >> ELSE <<MinDate(df), MaxDate(df)>>

\* lines 135-137: only a two-element range filters
DateFilter(df, dr) ==
    IF Len(dr) = 2
    THEN [df EXCEPT !.rows = SelectSeq(df.rows, LAMBDA r :
                         r["Order_Date"] >= dr[1] /\ r["Order_Date"] <= dr[2])]
    ELSE df

\* the options (and defaults) of the three multiselects
CarrierOptions(df) ==
    IF "Carrier" \in df.columns THEN unique(df, "Carrier") \ {NaN} ELSE {}

PriorityOptions(df) ==
    IF "Priority" \in df.columns THEN unique(df, "Priority") ELSE {}

SegmentOptions(df) ==
    IF "Customer_Segment" \in df.columns THEN unique(df, "Customer_Segment") ELSE {}

\* df[df[col].isin(accepted)]
isinMutInverted(df, col, accepted) ==
    [df EXCEPT !.rows = SelectSeq(df.rows, LAMBDA r : r[col] \notin accepted)]

isin(df, col, accepted) ==
    [df EXCEPT !.rows = SelectSeq(df.rows, LAMBDA r : r[col] \in accepted)]

\* "if accepted and col in main_df.columns: main_df = main_df[...isin(accepted)]"
FilterStepMutNoPassThrough(df, col, accepted) ==
    IF col \in df.columns THEN isin(df, col, accepted) ELSE df

FilterStep(df, col, accepted) ==
    IF accepted # {} /\ col \in df.columns THEN isin(df, col, accepted) ELSE df

\* lines 152-158
ApplyFilters(df, cs, ps, ss) ==
    FilterStep(FilterStep(FilterStep(df, "Carrier", cs), "Priority", ps),
               "Customer_Segment", ss)

(***************************************************************************)
(* main: the charts of tabs 2 to 6.  Only the columns a chart names        *)
(* without testing for them matter here: plotly express raises ValueError  *)
(* for a column name that is not in the data frame, which ends the run.    *)
(***************************************************************************)
\* lines 248-250: px.scatter(..., color='Carrier', hover_data=['Order_ID'])
delay_chart_ok(df) ==
    {"Delivery_Delay_Days", "Distance_KM"} \subseteq df.columns
      => {"Carrier", "Order_ID"} \subseteq df.columns

\* lines 294-296: px.scatter(..., color='Priority', hover_data=['Route'])
distance_chart_ok(df) ==
    {"Distance_KM", "Actual_Delivery_Days"} \subseteq df.columns
      => {"Priority", "Route"} \subseteq df.columns

\* lines 307-310: px.scatter(..., hover_data=['Route', 'Carrier'])
traffic_chart_ok(df) ==
    {"Traffic_Delay_Minutes", "Delivery_Delay_Days"} \subseteq df.columns
      => {"Route", "Carrier"} \subseteq df.columns

charts_ok(df) == delay_chart_ok(df) /\ distance_chart_ok(df) /\ traffic_chart_ok(df)

(***************************************************************************)
(* main: the insight rules of tab 7                                        *)
(***************************************************************************)
OnTimeStandard == 75

QuantileNum == 9

QuantileDen == 10

LowRating == 2

\* the values of s in ascending order
SortedSeq(s) ==
    [k \in 1..Len(s) |->
        CHOOSE x \in {s[i] : i \in 1..Len(s)} :
            /\ Cardinality({i \in 1..Len(s) : s[i] < x}) < k
            /\ k <= Cardinality({i \in 1..Len(s) : s[i] <= x})]

\* Series.quantile(0.9): linear interpolation between the two order statistics
\* around position 0.9 * (n - 1) of the non-missing values; NaN when there is none
quantile(df, col) ==
    LET s  == SortedSeq(dropna(df, col))
        n  == Len(s)
        h  == QuantileNum * (n - 1)
        lo == (h \div QuantileDen) + 1
        fr == h % QuantileDen
        hi == IF fr = 0 THEN lo ELSE lo + 1
    IN  IF n = 0 THEN NaN
        ELSE Val(Frac(QuantileDen * s[lo] + fr * (s[hi] - s[lo]), QuantileDen))

\* cell > q elementwise: False when either side is NaN
gtMutGe(c, q) == notna(c) /\ notna(q) /\ ~FracLt(Frac(c[1], 1), q[1])

gt(c, q) == notna(c) /\ notna(q) /\ FracLt(q[1], Frac(c[1], 1))

\* (main_df['On_Time'].sum() / len(main_df)) * 100 if 'On_Time' in columns else 0
rule_on_time_rate(df) ==
    IF "On_Time" \in df.columns
    THEN Frac(100 * CountRows(df, LAMBDA r : r["On_Time"]), Len(df.rows))
    ELSE Frac(0, 1)

\* rule 1, lines 402-409
below_standardMutLe(rate) == ~FracLt(Frac(OnTimeStandard, 1), rate)

below_standard(rate) == FracLt(rate, Frac(OnTimeStandard, 1))

delivery_insight(df) ==
    LET on_time_rate == rule_on_time_rate(df)
    IN  IF below_standard(on_time_rate)
        THEN << [type |-> "warning", title |-> "Delivery Performance Issue",
                 rate |-> on_time_rate] >>
        ELSE << >>

\* rule 2, lines 412-420
high_cost_orders(df) ==
    LET q == quantile(df, "Total_Cost")
    IN  SelectSeq(df.rows, LAMBDA r : gt(r["Total_Cost"], q))

cost_insight(df) ==
    LET high == IF "Total_Cost" \in df.columns THEN high_cost_orders(df) ELSE << >>
    IN  IF high # << >>
        THEN << [type |-> "info", title |-> "Cost Optimization Opportunity",
                 count |-> Len(high)] >>
        ELSE << >>

\* rule 3, lines 423-431
low_rated_ordersMutNanLow(df) ==
    SelectSeq(df.rows, LAMBDA r : notna(r["Customer_Rating"])
                                  => r["Customer_Rating"][1] <= LowRating)

low_rated_orders(df) ==
    SelectSeq(df.rows, LAMBDA r : notna(r["Customer_Rating"])
                                  /\ r["Customer_Rating"][1] <= LowRating)

rating_insight(df) ==
    LET low == IF "Customer_Rating" \in df.columns THEN low_rated_orders(df) ELSE << >>
    IN  IF low # << >>
        THEN << [type |-> "warning", title |-> "Customer Satisfaction Risk",
                 count |-> Len(low)] >>
        ELSE << >>

\* lines 398-431
insight_rules(df) ==
    IF df.rows # << >>
    THEN delivery_insight(df) \o cost_insight(df) \o rating_insight(df)
    ELSE << >>

(***************************************************************************)
(* main: one run of the script with the given widget values                *)
(***************************************************************************)
Loaded == IF cache = << >> THEN load_data(files) ELSE cache[1]

Run(L, dr, cs, ps, ss) ==
    /\ cache' = <<L>>
    /\ files' = files
    /\ IF ~L.ok
       THEN \* line 115-117: st.error and return
            /\ outcome' = "load_error"
            /\ main_df' = EmptyFrame
            /\ kpis' = EmptyDict
            /\ insights' = << >>
            /\ UNCHANGED <<date_range, carriers, priorities, segments>>
       ELSE LET df == ApplyFilters(DateFilter(L.df, dr), cs, ps, ss)
                k  == create_kpi_metrics(df)
            IN  /\ date_range' = dr
                /\ carriers' = cs
                /\ priorities' = ps
                /\ segments' = ss
                /\ main_df' = df
                /\ kpis' = k
                /\ IF "total_orders" \notin DOMAIN k
                   THEN \* kpis['total_orders'] on line 176 raises KeyError
                        /\ outcome' = "KeyError"
                        /\ insights' = << >>
                   ELSE IF ~charts_ok(df)
                   THEN \* a chart of tabs 2-4 raises after tab 1 was drawn
                        /\ outcome' = "ValueError"
                        /\ insights' = << >>
                   ELSE /\ outcome' = "rendered"
                        /\ insights' = insight_rules(df)

\* the first run of the script: every widget at its default
FirstRun ==
    /\ outcome = "idle"
    /\ LET L == Loaded
       IN  IF L.ok
           THEN LET dr == DateRangeDefault(L.df)
                    d1 == DateFilter(L.df, dr)
                IN  Run(L, dr, CarrierOptions(d1), PriorityOptions(d1),
                        SegmentOptions(d1))
           ELSE Run(L, << >>, {}, {}, {})

\* a rerun may follow any run that got as far as drawing the sidebar
CanRerun == outcome \notin {"idle", "load_error"}

\* a multiselect keeps its value while its options stay the same, and starts
\* again from its default (every option) when they change
Kept(sel, old, new) == IF old = new THEN sel ELSE new

\* the user picks another date range, which reruns the script
ChangeDateRange ==
    /\ CanRerun
    /\ LET L == Loaded
       IN  \E dr \in DateRangeChoices(L.df) \ {date_range} :
             LET d0 == DateFilter(L.df, date_range)
                 d1 == DateFilter(L.df, dr)
             IN  Run(L, dr,
                     Kept(carriers, CarrierOptions(d0), CarrierOptions(d1)),
                     Kept(priorities, PriorityOptions(d0), PriorityOptions(d1)),
                     Kept(segments, SegmentOptions(d0), SegmentOptions(d1)))

\* the user changes the carrier selection, which reruns the script
ChangeCarriers ==
    /\ CanRerun
    /\ LET L == Loaded
       IN  \E cs \in SUBSET CarrierOptions(DateFilter(L.df, date_range)) \ {carriers} :
             Run(L, date_range, cs, priorities, segments)

\* the user changes the priority selection, which reruns the script
ChangePriorities ==
    /\ CanRerun
    /\ LET L == Loaded
       IN  \E ps \in SUBSET PriorityOptions(DateFilter(L.df, date_range)) \ {priorities} :
             Run(L, date_range, carriers, ps, segments)

\* the user changes the segment selection, which reruns the script
ChangeSegments ==
    /\ CanRerun
    /\ LET L == Loaded
       IN  \E ss \in SUBSET SegmentOptions(DateFilter(L.df, date_range)) \ {segments} :
             Run(L, date_range, carriers, priorities, ss)

Next ==
    \/ FirstRun
    \/ ChangeDateRange
    \/ ChangeCarriers
    \/ ChangePriorities
    \/ ChangeSegments

(***************************************************************************)
(* The input files.  Column placement follows the data model: order        *)
(* attributes in orders.csv, the rest in the four auxiliary files.         *)
(***************************************************************************)
MaxOrderId == 2      \* Order_ID values 1..MaxOrderId in the join inputs

MaxJoinRows == 2     \* rows per file in the join inputs

MaxCost == 2         \* cost component values 1..MaxCost

MaxDays == 2         \* promised / actual delivery days 1..MaxDays

MaxFilterRows == 2   \* orders in the filter inputs

MaxOrderDate == 2    \* Order_Date values 1..MaxOrderDate

MaxKpiRows == 4      \* orders in the KPI inputs that vary status or rating

MaxCostRows == 3     \* orders in the KPI inputs that vary the cost level

MaxRating == 3       \* Customer_Rating values 1..MaxRating

MaxCostLevel == 3    \* per-order cost levels 1..MaxCostLevel in the KPI inputs

Statuses == {"On-Time", "Delayed", "Severely-Delayed"}

OrderRow(id, date, carrier, priority, segment) ==
    [Order_ID |-> id, Order_Date |-> date, Carrier |-> carrier,
     Priority |-> priority, Customer_Segment |-> segment, Route |-> Val("R1")]

DeliveryRow(id, promised, actual, status) ==
    [Order_ID |-> id, Promised_Delivery_Days |-> promised,
     Actual_Delivery_Days |-> actual, Delivery_Status |-> status]

\* c: the seven cost cells in the order of cost_columns
CostRow(id, c) ==
    [Order_ID |-> id, Fuel_Cost |-> c[1], Labor_Cost |-> c[2],
     Vehicle_Maintenance |-> c[3], Insurance |-> c[4], Packaging_Cost |-> c[5],
     Technology_Platform_Fee |-> c[6], Other_Overhead |-> c[7]]

RouteRow(id, km) == [Order_ID |-> id, Distance_KM |-> km]

FeedbackRow(id, rating) ==
    [Order_ID |-> id, Feedback_Date |-> Val(1), Customer_Rating |-> rating]

BaseOrder(id) == OrderRow(id, 1, Val("BlueDart"), Val("High"), Val("Retail"))

BaseDelivery(id) == DeliveryRow(id, Val(2), Val(2), Val("On-Time"))

BaseCost(id) == CostRow(id, [i \in 1..7 |-> Val(1)])

BaseRoute(id) == RouteRow(id, Val(10))

BaseFeedback(id) == FeedbackRow(id, Val(3))

Frame(rows, like) == [columns |-> DOMAIN like, rows |-> rows]

OrdersFile(rows) == Frame(rows, BaseOrder(1))

DeliveryFile(rows) == Frame(rows, BaseDelivery(1))

CostFile(rows) == Frame(rows, BaseCost(1))

RoutesFile(rows) == Frame(rows, BaseRoute(1))

FeedbackFile(rows) == Frame(rows, BaseFeedback(1))

Files(o, d, c, r, f) ==
    [orders |-> OrdersFile(o), delivery |-> DeliveryFile(d), cost |-> CostFile(c),
     routes |-> RoutesFile(r), feedback |-> FeedbackFile(f)]

\* all sequences over S with lo..hi elements
SeqsOf(S, lo, hi) == UNION {[1..n -> S] : n \in lo..hi}

MapSeq(s, F(_)) == [i \in 1..Len(s) |-> F(s[i])]

Ids(n) == [i \in 1..n |-> i]

Idle(f) ==
    /\ files = f
    /\ cache = << >>
    /\ date_range = << >>
    /\ carriers = {}
    /\ priorities = {}
    /\ segments = {}
    /\ main_df = EmptyFrame
    /\ kpis = EmptyDict
    /\ insights = << >>
    /\ outcome = "idle"

AuxFiles == {"delivery", "cost", "routes", "feedback"}

\* Join inputs: the Order_IDs o (repeats included) in orders.csv; auxiliary
\* file k holds the Order_IDs a (repeats included), the other three hold the
\* Order_IDs b.
JoinFiles(o, k, a, b) ==
    Files(MapSeq(o, BaseOrder),
          MapSeq(IF k = "delivery" THEN a ELSE b, BaseDelivery),
          MapSeq(IF k = "cost" THEN a ELSE b, BaseCost),
          MapSeq(IF k = "routes" THEN a ELSE b, BaseRoute),
          MapSeq(IF k = "feedback" THEN a ELSE b, BaseFeedback))

\* Cost inputs: one order whose cost row holds the cells c.
CostCells == {NaN} \cup {Val(v) : v \in 1..MaxCost}

CostFiles(c) ==
    Files(<<BaseOrder(1)>>, <<BaseDelivery(1)>>, <<CostRow(1, c)>>,
          <<BaseRoute(1)>>, <<BaseFeedback(1)>>)

\* Status inputs: one order whose delivery row has promised days p, actual
\* days a and status s.
StatusCells == {NaN} \cup {Val(s) : s \in Statuses}

DayCells == {Val(d) : d \in 1..MaxDays}

StatusFiles(p, a, s) ==
    Files(<<BaseOrder(1)>>, <<DeliveryRow(1, p, a, s)>>, <<BaseCost(1)>>,
          <<BaseRoute(1)>>, <<BaseFeedback(1)>>)

\* Load inputs: orders.csv with any 1..MaxJoinRows Order_IDs, one auxiliary
\* file with any 0..MaxJoinRows Order_IDs and the other three with no row or
\* one row per Order_ID; or one order with any combination of missing and
\* present cost components; or one order with any status (or a blank one) and
\* any promised and actual days.
InitLoad ==
    \/ \E o \in SeqsOf(1..MaxOrderId, 1, MaxJoinRows) :
       \E a \in SeqsOf(1..MaxOrderId, 0, MaxJoinRows) :
       \E b \in {<< >>, Ids(MaxOrderId)} :
       \E k \in AuxFiles : Idle(JoinFiles(o, k, a, b))
    \/ \E c \in [1..7 -> CostCells] : Idle(CostFiles(c))
    \/ \E p \in DayCells : \E a \in DayCells : \E s \in StatusCells :
         Idle(StatusFiles(p, a, s))

\* the first run of the script over the load inputs
SpecLoad == InitLoad /\ [][FirstRun]_vars

CarrierCells == <<NaN, Val("BlueDart"), Val("Delhivery")>>

PriorityCells == <<Val("High"), Val("Low")>>

SegmentCells == <<Val("Retail"), Val("SMB")>>

\* (date, carrier, priority, segment) profiles: one date with every carrier
\* (or a blank), priority and segment; every date with every carrier
SameDateProfiles ==
    [i \in 1..12 |-> <<1, CarrierCells[((i - 1) % 3) + 1],
                       PriorityCells[(((i - 1) \div 3) % 2) + 1],
                       SegmentCells[((i - 1) \div 6) + 1]>>]

DatedProfiles ==
    [i \in 1..(3 * MaxOrderDate) |->
        <<((i - 1) \div 3) + 1, CarrierCells[((i - 1) % 3) + 1],
          Val("High"), Val("Retail")>>]

NonDecreasing(n, m) ==
    {f \in [1..n -> 1..m] : \A i \in 1..n : \A j \in 1..n : i <= j => f[i] <= f[j]}

WithFullAux(o) ==
    Files(o, MapSeq(Ids(Len(o)), BaseDelivery), MapSeq(Ids(Len(o)), BaseCost),
          MapSeq(Ids(Len(o)), BaseRoute), MapSeq(Ids(Len(o)), BaseFeedback))

OrdersFrom(profiles, f) ==
    [i \in 1..Len(f) |-> OrderRow(i, profiles[f[i]][1], profiles[f[i]][2],
                                  profiles[f[i]][3], profiles[f[i]][4])]

\* Filter inputs: 1..MaxFilterRows orders (Order_IDs 1, 2, ...) listed in
\* non-decreasing profile order, every auxiliary file with one row per order.
Init ==
    \E n \in 1..MaxFilterRows :
       \/ \E f \in NonDecreasing(n, Len(SameDateProfiles)) :
            Idle(WithFullAux(OrdersFrom(SameDateProfiles, f)))
       \/ \E f \in NonDecreasing(n, Len(DatedProfiles)) :
            Idle(WithFullAux(OrdersFrom(DatedProfiles, f)))

\* the first run and any number of reruns over the filter inputs
Spec == Init /\ [][Next]_vars

KpiOrder(i) ==
    OrderRow(i, 1, IF i % 2 = 1 THEN Val("BlueDart") ELSE Val("Delhivery"),
             Val("High"), Val("Retail"))

StatusSeq == <<"On-Time", "Delayed", "Severely-Delayed">>

\* the rows F(i, v[i]) of the orders i with v[i] > 0
RowsWhere(v, F(_, _)) ==
    LET ids == SelectSeq(Ids(Len(v)), LAMBDA i : v[i] > 0)
    IN  [k \in 1..Len(ids) |-> F(ids[k], v[ids[k]])]

KpiFiles(n, d, c, f) ==
    Files(MapSeq(Ids(n), KpiOrder), d, c, MapSeq(Ids(n), BaseRoute), f)

\* order i has status StatusSeq[v[i] - 1], or no delivery row when v[i] = 1
StatusKpiFiles(v) ==
    KpiFiles(Len(v),
             RowsWhere([i \in 1..Len(v) |-> v[i] - 1],
                       LAMBDA i, x : DeliveryRow(i, Val(2), Val(2), Val(StatusSeq[x]))),
             MapSeq(Ids(Len(v)), BaseCost), MapSeq(Ids(Len(v)), BaseFeedback))

\* order i has rating v[i] - 1, or no feedback row when v[i] = 1
RatingKpiFiles(v) ==
    KpiFiles(Len(v), MapSeq(Ids(Len(v)), BaseDelivery), MapSeq(Ids(Len(v)), BaseCost),
             RowsWhere([i \in 1..Len(v) |-> v[i] - 1],
                       LAMBDA i, x : FeedbackRow(i, Val(x))))

\* order i has every cost component equal to v[i], or no cost row when v[i] = 0
CostKpiFiles(v) ==
    KpiFiles(Len(v), MapSeq(Ids(Len(v)), BaseDelivery),
             RowsWhere(v, LAMBDA i, x : CostRow(i, [j \in 1..7 |-> Val(x)])),
             MapSeq(Ids(Len(v)), BaseFeedback))

\* KPI inputs: orders 1..n with alternating carriers and one date.  One of the
\* status, the rating or the cost level varies per order, the other auxiliary
\* files hold one row per order.  Statuses and ratings are listed in
\* non-decreasing order, cost levels in every order.
InitKpi ==
    \/ \E n \in 1..MaxKpiRows :
         \/ \E v \in NonDecreasing(n, Len(StatusSeq) + 1) : Idle(StatusKpiFiles(v))
         \/ \E v \in NonDecreasing(n, MaxRating + 1) : Idle(RatingKpiFiles(v))
    \/ \E n \in 1..MaxCostRows :
         \E v \in [1..n -> 0..MaxCostLevel] : Idle(CostKpiFiles(v))

\* the first run and any number of reruns over the KPI inputs
SpecKpi == InitKpi /\ [][Next]_vars

MaxSchemaRows == 2   \* orders in the schema inputs

FileNames == {"orders", "delivery", "cost", "routes", "feedback"}

\* order i of the schema inputs: dates, carriers, priorities and segments
\* alternate
SchemaOrder(i) ==
    OrderRow(i, ((i - 1) % MaxOrderDate) + 1,
             IF i % 2 = 1 THEN Val("BlueDart") ELSE Val("Delhivery"),
             IF i % 2 = 1 THEN Val("High") ELSE Val("Low"),
             IF i % 2 = 1 THEN Val("Retail") ELSE Val("SMB"))

\* n orders with every column in every file: order 1 is delayed and rated 1,
\* the others are on time and rated 3; order i has every cost component i
SchemaFiles(n) ==
    Files(MapSeq(Ids(n), SchemaOrder),
          [i \in 1..n |-> DeliveryRow(i, Val(2), Val(2),
                             IF i = 1 THEN Val("Delayed") ELSE Val("On-Time"))],
          [i \in 1..n |-> CostRow(i, [j \in 1..7 |-> Val(i)])],
          MapSeq(Ids(n), BaseRoute),
          [i \in 1..n |-> FeedbackRow(i, IF i = 1 THEN Val(1) ELSE Val(3))])

\* the file k of f written without its column c
DropColumn(f, k, c) ==
    [f EXCEPT ![k] =
        [columns |-> @.columns \ {c},
         rows    |-> [i \in 1..Len(@.rows) |->
                        [d \in (DOMAIN @.rows[i]) \ {c} |-> @.rows[i][d]]]]]

\* Schema inputs: 1..MaxSchemaRows orders, with every column or with one column
\* of one file absent.
InitSchema ==
    \E n \in 1..MaxSchemaRows :
       \/ Idle(SchemaFiles(n))
       \/ \E k \in FileNames : \E c \in SchemaFiles(n)[k].columns :
            Idle(DropColumn(SchemaFiles(n), k, c))

\* the first run and any number of reruns over the schema inputs
SpecSchema == InitSchema /\ [][Next]_vars

MaxRuleRows == 2     \* orders in the rule inputs

\* order i of the rule inputs: order 1 has no carrier and priority High, the
\* others BlueDart and Low, so that the filters can leave either, both or none
RuleOrder(i) ==
    OrderRow(i, 1, IF i = 1 THEN NaN ELSE Val("BlueDart"),
             IF i = 1 THEN Val("High") ELSE Val("Low"), Val("Retail"))

\* per order: a status, a rating (or a blank one) and a cost level
RuleProfiles ==
    [status : {"On-Time", "Delayed"}, rating : {NaN, Val(1), Val(3)}, cost : 1..2]

RuleFiles(v) ==
    Files(MapSeq(Ids(Len(v)), RuleOrder),
          [i \in 1..Len(v) |-> DeliveryRow(i, Val(2), Val(2), Val(v[i].status))],
          [i \in 1..Len(v) |-> CostRow(i, [j \in 1..7 |-> Val(v[i].cost)])],
          MapSeq(Ids(Len(v)), BaseRoute),
          [i \in 1..Len(v) |-> FeedbackRow(i, v[i].rating)])

\* Rule inputs: 1..MaxRuleRows orders, with every combination of status,
\* rating and cost level per order.
InitRules ==
    \E n \in 1..MaxRuleRows : \E v \in [1..n -> RuleProfiles] : Idle(RuleFiles(v))

\* the first run and any number of reruns over the rule inputs
SpecRules == InitRules /\ [][Next]_vars

(***************************************************************************)
(* Properties of load_data, checked under SpecLoad                         *)
(***************************************************************************)
IsLoaded == cache # << >> /\ cache[1].ok

\* the integrated table load_data returned
Integrated == cache[1].df

KeysOf(df) == {df.rows[i]["Order_ID"] : i \in 1..Len(df.rows)}

RowsWithId(df, id) == {i \in 1..Len(df.rows) : df.rows[i]["Order_ID"] = id}

UniqueKeys(df) == \A id \in KeysOf(df) : Cardinality(RowsWithId(df, id)) = 1

\* one row for the Order_ID, with the columns of every auxiliary file that has
\* no row for it missing
OneRowNullFilled(id) ==
    /\ Cardinality(RowsWithId(Integrated, id)) = 1
    /\ \A k \in AuxFiles :
         id \notin KeysOf(files[k]) =>
           \A i \in RowsWithId(Integrated, id) :
             \A c \in files[k].columns \ {"Order_ID"} : Integrated.rows[i][c] = NaN

\* C1 as stated: for every Order_ID of the Order dataset the integrated table
\* holds exactly one row with that Order_ID, and the fields of an auxiliary
\* dataset without a row for it are null in that row.
C1_JoinAsStated ==
    IsLoaded => \A id \in KeysOf(files.orders) : OneRowNullFilled(id)

\* C1 amended: the same, for inputs in which no Order_ID is repeated within the
\* Order dataset or within an auxiliary dataset.
C1_JoinUniqueKeys ==
    (IsLoaded /\ UniqueKeys(files.orders)
              /\ \A k \in AuxFiles : UniqueKeys(files[k]))
    => \A id \in KeysOf(files.orders) : OneRowNullFilled(id)

\* C1 witness: two distinct orders, loaded from files without repeated keys,
\* where one auxiliary file has a row for an order and another has none.
C1_Witness ==
    /\ IsLoaded
    /\ UniqueKeys(files.orders) /\ \A k \in AuxFiles : UniqueKeys(files[k])
    /\ Cardinality(KeysOf(files.orders)) = 2
    /\ \E id \in KeysOf(files.orders) : \E k1, k2 \in AuxFiles :
         id \in KeysOf(files[k1]) /\ id \notin KeysOf(files[k2])
    /\ Len(Integrated.rows) = 2

CostCellsOf(r) == [i \in 1..Len(cost_columns) |-> r[cost_columns[i]]]

AllPresent(cells) == \A i \in 1..Len(cells) : notna(cells[i])

\* C2: in every row of the integrated table Total_Cost is the sum of the seven
\* cost components when all seven are present, and is null when at least one
\* of them is null (also when the order has no cost row).
C2_TotalCost ==
    IsLoaded =>
      \A i \in 1..Len(Integrated.rows) :
        LET r == Integrated.rows[i]
            c == CostCellsOf(r)
        IN  IF AllPresent(c)
            THEN r["Total_Cost"] = Val(SumSeq([j \in 1..Len(c) |-> c[j][1]]))
            ELSE r["Total_Cost"] = NaN

\* C2 witness: a loaded row with some components present, one missing, and a
\* null Total_Cost.
C2_Witness ==
    /\ IsLoaded
    /\ \E i \in 1..Len(Integrated.rows) :
         LET c == CostCellsOf(Integrated.rows[i])
         IN  /\ \E j \in 1..Len(c) : c[j] = NaN
             /\ Cardinality({j \in 1..Len(c) : notna(c[j])}) = Len(c) - 1
             /\ \E j, l \in 1..Len(c) : notna(c[j]) /\ notna(c[l]) /\ c[j] # c[l]
             /\ Integrated.rows[i]["Total_Cost"] = NaN

\* C3: in every row of the integrated table On_Time is true exactly when
\* Delivery_Status is "On-Time"; a row with another (or no) status is not on
\* time even when Actual_Delivery_Days <= Promised_Delivery_Days.
C3_OnTime ==
    IsLoaded =>
      \A i \in 1..Len(Integrated.rows) :
        LET r == Integrated.rows[i]
        IN  /\ r["On_Time"] \in BOOLEAN
            /\ r["On_Time"] <=> (r["Delivery_Status"] = Val("On-Time"))
            /\ r["Delivery_Status"] \in {NaN, Val("Delayed"), Val("Severely-Delayed")}
                 => r["On_Time"] = FALSE

\* C3 witness: a loaded row delivered within the promised days whose status is
\* "Delayed", and which is not on time.
C3_Witness ==
    /\ IsLoaded
    /\ \E i \in 1..Len(Integrated.rows) :
         LET r == Integrated.rows[i]
         IN  /\ r["Delivery_Status"] = Val("Delayed")
             /\ r["Delivery_Delay_Days"] = Val(-1)
             /\ r["On_Time"] = FALSE

(***************************************************************************)
(* Properties of the filter engine, checked under Spec                     *)
(***************************************************************************)
\* the table the categorical filters of the last run were applied to
DateFilteredTable == DateFilter(Integrated, date_range)

\* a row passes a dimension whose accepted set is empty, or holds its value
Accepts(accepted, cell) == accepted = {} \/ cell \in accepted

\* C4: the filtered table is exactly the rows that satisfy every active
\* predicate: a non-empty accepted set keeps only the rows whose value is in
\* it, an empty accepted set removes no row.
C4_FilterResult ==
    CanRerun =>
      main_df.rows =
        SelectSeq(DateFilteredTable.rows, LAMBDA r :
                    /\ Accepts(carriers, r["Carrier"])
                    /\ Accepts(priorities, r["Priority"])
                    /\ Accepts(segments, r["Customer_Segment"]))

\* C4 witness: a run where the non-empty carrier set removes a row and the
\* empty priority and segment sets let the other row through.
C4_Witness ==
    /\ outcome = "rendered"
    /\ carriers # {} /\ priorities = {} /\ segments = {}
    /\ \E i \in 1..Len(DateFilteredTable.rows) :
         DateFilteredTable.rows[i]["Carrier"] \notin carriers
    /\ Len(main_df.rows) = Len(DateFilteredTable.rows) - 1
    /\ Len(main_df.rows) > 0

\* every filter specification whose accepted sets are subsets of the current ones
SubSpecs ==
    {a \in [c : SUBSET carriers, p : SUBSET priorities, s : SUBSET segments] : TRUE}

\* a dimension the wider specification filters on is filtered on by the
\* narrower one too
KeepsActive(a) ==
    /\ a.c = {} => carriers = {}
    /\ a.p = {} => priorities = {}
    /\ a.s = {} => segments = {}

RowsFor(a) == Len(ApplyFilters(DateFilteredTable, a.c, a.p, a.s).rows)

\* C5 as stated: a specification whose accepted sets are subsets of another's
\* (the empty set counting as a subset of every set) never returns more rows
\* over the same date range.
C5_MonotoneAsStated ==
    CanRerun => \A a \in SubSpecs : RowsFor(a) <= Len(main_df.rows)

\* C5 amended: the same, for specifications A and B where no accepted set of A
\* is empty while the corresponding set of B is not.
C5_MonotoneActive ==
    CanRerun => \A a \in SubSpecs : KeepsActive(a) => RowsFor(a) <= Len(main_df.rows)

\* C5 witness: a narrower specification, still filtering every dimension the
\* current one filters, that returns fewer rows, but some.
C5_Witness ==
    /\ outcome = "rendered"
    /\ \E a \in SubSpecs :
         /\ KeepsActive(a)
         /\ a.c # carriers
         /\ 0 < RowsFor(a) /\ RowsFor(a) < Len(main_df.rows)

IsZero(x) == FracEq(x, Frac(0, 1))

\* C6: when the filtered table has no rows the run does not fail, and the KPI
\* snapshot read by the dashboard has total_orders = 0, on_time_rate = 0 and
\* severely_delayed_rate = 0.
C6_EmptyTableKpi ==
    (CanRerun /\ main_df.rows = << >>) =>
      /\ outcome = "rendered"
      /\ {"total_orders", "on_time_rate", "severely_delayed_rate"} \subseteq DOMAIN kpis
      /\ kpis.total_orders = 0
      /\ IsZero(kpis.on_time_rate)
      /\ IsZero(kpis.severely_delayed_rate)

(***************************************************************************)
(* Properties of create_kpi_metrics and the insight rules, checked under   *)
(* SpecKpi                                                                 *)
(***************************************************************************)
RowSet(df, P(_)) == {i \in 1..Len(df.rows) : P(df.rows[i])}

\* the arithmetic mean of the non-null values of a column, 0 when there is none
MeanOrZero(df, col) ==
    LET v == dropna(df, col)
    IN  IF v = << >> THEN Frac(0, 1) ELSE Frac(SumSeq(v), Len(v))

\* C7: for a non-empty table avg_rating is the mean of the non-null
\* Customer_Rating values and avg_cost the mean of the non-null Total_Cost
\* values, each exactly 0 (not NaN) when the column has no non-null value.
C7_Averages ==
    outcome = "rendered" =>
      /\ notna(kpis.avg_rating)
      /\ FracEq(kpis.avg_rating[1], MeanOrZero(main_df, "Customer_Rating"))
      /\ notna(kpis.avg_cost)
      /\ FracEq(kpis.avg_cost[1], MeanOrZero(main_df, "Total_Cost"))

StatusBag(df) ==
    [s \in {Val(x) : x \in Statuses} \cup {NaN} |->
        Cardinality(RowSet(df, LAMBDA r : r["Delivery_Status"] = s))]

InPercentRange(x) == 0 <= x.num /\ x.num <= 100 * x.den

\* C8: for a non-empty table on_time_rate = 100 * (rows with On_Time) /
\* total_orders and severely_delayed_rate = 100 * (rows with status
\* "Severely-Delayed") / total_orders, total_orders counting every row (a null
\* status included); both lie in [0, 100]; statuses On-Time, On-Time, Delayed,
\* Severely-Delayed give 50 and 25.
C8_Rates ==
    outcome = "rendered" =>
      LET n  == Len(main_df.rows)
          ot == Cardinality(RowSet(main_df, LAMBDA r : r["On_Time"] = TRUE))
          sd == Cardinality(RowSet(main_df, LAMBDA r :
                                   r["Delivery_Status"] = Val("Severely-Delayed")))
      IN  /\ n > 0 /\ kpis.total_orders = n
          /\ kpis.on_time_rate.den > 0 /\ kpis.severely_delayed_rate.den > 0
          /\ FracEq(kpis.on_time_rate, Frac(100 * ot, n))
          /\ FracEq(kpis.severely_delayed_rate, Frac(100 * sd, n))
          /\ InPercentRange(kpis.on_time_rate)
          /\ InPercentRange(kpis.severely_delayed_rate)
          /\ (n = 4 /\ StatusBag(main_df)[Val("On-Time")] = 2
                    /\ StatusBag(main_df)[Val("Delayed")] = 1
                    /\ StatusBag(main_df)[Val("Severely-Delayed")] = 1)
             => /\ FracEq(kpis.on_time_rate, Frac(50, 1))
                /\ FracEq(kpis.severely_delayed_rate, Frac(25, 1))

\* C8 witness: a table with a null status among three rows, one on time and
\* one severely delayed, whose rates count the null row in the total.
C8_Witness ==
    /\ outcome = "rendered"
    /\ kpis.total_orders = 3
    /\ StatusBag(main_df)[NaN] = 1
    /\ StatusBag(main_df)[Val("On-Time")] = 1
    /\ StatusBag(main_df)[Val("Severely-Delayed")] = 1
    /\ kpis.on_time_rate = Frac(100, 3)
    /\ kpis.severely_delayed_rate = Frac(100, 3)

Titled(t) == {i \in 1..Len(insights) : insights[i].title = t}

\* C9: for a non-empty table the insight list holds exactly one warning
\* "Delivery Performance Issue" when the table's on_time_rate is strictly below
\* 75 and none when it is 75 or more; the rate the rule reports is the KPI
\* Snapshot's on_time_rate.
C9_DeliveryRule ==
    outcome = "rendered" =>
      LET hits == Titled("Delivery Performance Issue")
      IN  IF FracLt(kpis.on_time_rate, Frac(75, 1))
          THEN /\ Cardinality(hits) = 1
               /\ \A i \in hits :
                    /\ insights[i].type = "warning"
                    /\ FracEq(insights[i].rate, kpis.on_time_rate)
          ELSE hits = {}

\* C9 witness: two of four orders on time (rate 50): one warning with that rate.
C9_Witness ==
    /\ outcome = "rendered"
    /\ kpis.total_orders = 4
    /\ FracEq(kpis.on_time_rate, Frac(50, 1))
    /\ Cardinality(Titled("Delivery Performance Issue")) = 1

\* the ascending arrangement of s
Ascending(s) ==
    CHOOSE t \in [1..Len(s) -> {s[i] : i \in 1..Len(s)}] :
        /\ \A i \in 1..(Len(s) - 1) : t[i] <= t[i + 1]
        /\ \A x \in {s[i] : i \in 1..Len(s)} :
             Cardinality({i \in 1..Len(s) : t[i] = x})
               = Cardinality({i \in 1..Len(s) : s[i] = x})

\* the 90th percentile of a non-empty sequence by linear interpolation: the
\* value at position 1 + 0.9 * (n - 1) of its ascending arrangement
Percentile90(s) ==
    LET t  == Ascending(s)
        h  == 9 * (Len(s) - 1)
        lo == (h \div 10) + 1
        hi == IF h % 10 = 0 THEN lo ELSE lo + 1
    IN  Frac(10 * t[lo] + (h % 10) * (t[hi] - t[lo]), 10)

\* the rows whose Total_Cost is present and strictly above the 90th percentile
\* of the present Total_Cost values of the table
AbovePercentile(df) ==
    LET v == dropna(df, "Total_Cost")
    IN  IF v = << >> THEN {}
        ELSE RowSet(df, LAMBDA r : /\ notna(r["Total_Cost"])
                                   /\ FracLt(Percentile90(v), Frac(r["Total_Cost"][1], 1)))

\* C10: for a non-empty table an info insight "Cost Optimization Opportunity"
\* is emitted exactly when some row has Total_Cost strictly above the 90th
\* percentile of the non-null Total_Cost values of the table, and it carries
\* the number of such rows; null Total_Cost rows are never counted; nothing is
\* emitted when the non-null values are all equal or there is none.
C10_CostRule ==
    outcome = "rendered" =>
      LET hits  == Titled("Cost Optimization Opportunity")
          above == AbovePercentile(main_df)
      IN  /\ IF above # {}
             THEN /\ Cardinality(hits) = 1
                  /\ \A i \in hits : /\ insights[i].type = "info"
                                     /\ insights[i].count = Cardinality(above)
             ELSE hits = {}
          /\ Cardinality(unique(main_df, "Total_Cost") \ {NaN}) <= 1 => hits = {}

\* C10 witness: three orders, one without Total_Cost and two with different
\* costs: the insight counts the one row above the percentile.
C10_Witness ==
    /\ outcome = "rendered"
    /\ Len(main_df.rows) = 3
    /\ Cardinality(RowSet(main_df, LAMBDA r : r["Total_Cost"] = NaN)) = 1
    /\ Cardinality(unique(main_df, "Total_Cost") \ {NaN}) = 2
    /\ \E i \in Titled("Cost Optimization Opportunity") : insights[i].count = 1

\* the rows with a present Customer_Rating of 2 or less
LowRated(df) ==
    RowSet(df, LAMBDA r : /\ r["Customer_Rating"] # NaN
                          /\ r["Customer_Rating"][1] <= 2)

\* C11: for a non-empty table a warning insight "Customer Satisfaction Risk" is
\* emitted exactly when at least one row has a non-null Customer_Rating of 2 or
\* less, and it carries the number of such rows; rows with a null rating are
\* never counted.
C11_RatingRule ==
    outcome = "rendered" =>
      LET hits == Titled("Customer Satisfaction Risk")
          low  == LowRated(main_df)
          null == RowSet(main_df, LAMBDA r : r["Customer_Rating"] = NaN)
      IN  /\ IF low # {}
             THEN /\ Cardinality(hits) = 1
                  /\ \A i \in hits : /\ insights[i].type = "warning"
                                     /\ insights[i].count = Cardinality(low)
             ELSE hits = {}
          /\ \A i \in hits :
               insights[i].count <= Len(main_df.rows) - Cardinality(null)

\* C11 witness: three orders, one without feedback, one rated 2 and one rated
\* 3: the insight counts the one low-rated row.
C11_Witness ==
    /\ outcome = "rendered"
    /\ Len(main_df.rows) = 3
    /\ Cardinality(RowSet(main_df, LAMBDA r : r["Customer_Rating"] = NaN)) = 1
    /\ Cardinality(RowSet(main_df, LAMBDA r : r["Customer_Rating"] = Val(2))) = 1
    /\ Cardinality(RowSet(main_df, LAMBDA r : r["Customer_Rating"] = Val(3))) = 1
    /\ \E i \in Titled("Customer Satisfaction Risk") : insights[i].count = 1

(***************************************************************************)
(* Missing columns, checked under SpecSchema                               *)
(***************************************************************************)
\* the columns of each input dataset that a filter, a KPI field, a derived
\* metric behind one, or an insight rule reads
SchemaRequired ==
    [orders   |-> {"Order_ID", "Order_Date", "Carrier", "Priority", "Customer_Segment"},
     delivery |-> {"Order_ID", "Delivery_Status"},
     cost     |-> {"Order_ID"} \cup {cost_columns[i] : i \in 1..Len(cost_columns)},
     routes   |-> {"Order_ID"},
     feedback |-> {"Order_ID", "Customer_Rating"}]

MissingRequired ==
    \E k \in FileNames : ~(SchemaRequired[k] \subseteq files[k].columns)

\* C12: when a required column is absent from an input dataset, the run ends
\* with the load error and produces no table, no KPI snapshot and no insight;
\* it never goes on with a default value or with the filter, KPI field or rule
\* of that column skipped.
C12_MissingColumnFails ==
    (outcome # "idle" /\ MissingRequired) =>
      /\ outcome = "load_error"
      /\ main_df = EmptyFrame
      /\ kpis = EmptyDict
      /\ insights = << >>

(***************************************************************************)
(* The rule engine as a whole, checked under SpecRules                     *)
(***************************************************************************)
RuleTitles ==
    <<"Delivery Performance Issue", "Cost Optimization Opportunity",
      "Customer Satisfaction Risk">>

\* the position of a title in RuleTitles
TitleRank(t) == CHOOSE k \in 1..Len(RuleTitles) : RuleTitles[k] = t

\* the list holds only the three titles, in their order, each at most once
RulesInOrder ==
    /\ \A i \in 1..Len(insights) :
         insights[i].title \in {RuleTitles[k] : k \in 1..Len(RuleTitles)}
    /\ \A i, j \in 1..Len(insights) :
         i < j => TitleRank(insights[i].title) < TitleRank(insights[j].title)

\* each rule's own guard over the filtered table
RuleGuards ==
    <<FracLt(Frac(100 * Cardinality(RowSet(main_df, LAMBDA r : r["On_Time"] = TRUE)),
                  Len(main_df.rows)), Frac(75, 1)),
      AbovePercentile(main_df) # {},
      LowRated(main_df) # {}>>

\* a rule's insight is present exactly when its own guard holds
RulesIndependent ==
    main_df.rows # << >> =>
      \A k \in 1..Len(RuleTitles) : (Titled(RuleTitles[k]) # {}) <=> RuleGuards[k]

\* the table after the rules is the filtered table, row for row
TableUntouched ==
    /\ main_df = ApplyFilters(DateFilteredTable, carriers, priorities, segments)
    /\ main_df.rows # << >> => kpis.total_orders = Len(main_df.rows)

\* C13: after every run (the first one and every rerun after a filter change)
\* the insight list is a subsequence of [Delivery Performance Issue, Cost
\* Optimization Opportunity, Customer Satisfaction Risk] with each title at
\* most once, each insight is present exactly when its own rule's guard holds
\* over the current filtered table, the rules leave the table and its row
\* count alone, and an empty table yields an empty list without failure.
C13_RuleEngine ==
    CanRerun =>
      /\ outcome = "rendered"
      /\ RulesInOrder
      /\ RulesIndependent
      /\ TableUntouched
      /\ main_df.rows = << >> => insights = << >>

====
